---- MODULE Spec2Model ----
(***************************************************************************)
(* Survey Management Platform: the response analytics aggregator           *)
(* (surveyController.getAnalytics) over the Survey and Response documents. *)
(*                                                                         *)
(* JavaScript values are modelled as tagged records (JsValue); a string is *)
(* a sequence of one-character strings so that trim(), String() and        *)
(* Number() are computed, not assumed.  A quotient (the average, a         *)
(* percentage) is kept as an exact fraction [num, den].                    *)
(*                                                                         *)
(* The handlers that change the survey (updateSurvey, addQuestion,         *)
(* publishSurvey, closeSurvey) and the response collection (submitResponse,*)
(* savePartialResponse, submitSurveyResponse, deleteResponse) are split at *)
(* their awaits: a request reads, is suspended, and writes later.          *)
(***************************************************************************)
EXTENDS Integers, Sequences, FiniteSets

\* the survey document, the stored response documents, the result last sent
\* to a client, and the requests that are being handled (past an await)
VARIABLES survey, responses, report, requests

vars == <<survey, responses, report, requests>>

-----------------------------------------------------------------------------
(* Bounds of the model *)

MaxResponses == 2

\* questions a survey may hold, and requests that may be suspended at once
MaxQuestions == 2

MaxInFlight == 2

-----------------------------------------------------------------------------
(* JavaScript values of the Mixed field `answer` *)

JsUndefined == [kind |-> "undefined", str |-> <<>>, num |-> 0, list |-> <<>>]

JsNull == [kind |-> "null", str |-> <<>>, num |-> 0, list |-> <<>>]

JsString(s) == [kind |-> "string", str |-> s, num |-> 0, list |-> <<>>]

JsNumber(n) == [kind |-> "number", str |-> <<>>, num |-> n, list |-> <<>>]

JsNaN == [kind |-> "nan", str |-> <<>>, num |-> 0, list |-> <<>>]

\* an array whose elements are strings or numbers
JsArray(l) == [kind |-> "array", str |-> <<>>, num |-> 0, list |-> l]

Whitespace == {" "}

Digits == <<"0", "1", "2", "3", "4", "5", "6", "7", "8", "9">>

IsDigit(c) == \E d \in 1..10 : Digits[d] = c

DigitValue(c) == (CHOOSE d \in 1..10 : Digits[d] = c) - 1

RECURSIVE TrimStart(_)
TrimStart(s) ==
  IF s # <<>> /\ Head(s) \in Whitespace THEN TrimStart(Tail(s)) ELSE s

RECURSIVE TrimEnd(_)
TrimEnd(s) ==
  IF s # <<>> /\ s[Len(s)] \in Whitespace
    THEN TrimEnd(SubSeq(s, 1, Len(s) - 1))
    ELSE s

\* String.prototype.trim
Trim(s) == TrimEnd(TrimStart(s))

RECURSIVE DecimalString(_)
DecimalString(n) ==
  IF n < 10 THEN <<Digits[n + 1]>>
  ELSE DecimalString(n \div 10) \o <<Digits[(n % 10) + 1]>>

RECURSIVE DecimalValue(_)
DecimalValue(s) ==
  IF s = <<>> THEN 0
  ELSE 10 * DecimalValue(SubSeq(s, 1, Len(s) - 1)) + DigitValue(s[Len(s)])

RECURSIVE JoinComma(_)
JoinComma(ss) ==
  IF ss = <<>> THEN <<>>
  ELSE IF Len(ss) = 1 THEN ss[1]
  ELSE ss[1] \o <<",">> \o JoinComma(Tail(ss))

\* String(v) of a string or a non-negative integer
ScalarString(v) ==
  IF v.kind = "string" THEN v.str
  ELSE IF v.kind = "number" THEN DecimalString(v.num)
  ELSE IF v.kind = "nan" THEN <<"N", "a", "N">>
  ELSE IF v.kind = "null" THEN <<"n", "u", "l", "l">>
  ELSE <<"u", "n", "d", "e", "f", "i", "n", "e", "d">>

\* String(v): an array joins the strings of its elements with ","
StringOf(v) ==
  IF v.kind = "array"
    THEN JoinComma([i \in 1..Len(v.list) |-> ScalarString(v.list[i])])
    ELSE ScalarString(v)

\* Number(s) of a string: blank is 0, a run of digits its value, else NaN
StringToNumber(s) ==
  LET t == Trim(s) IN
    IF t = <<>> THEN JsNumber(0)
    ELSE IF \A i \in 1..Len(t) : IsDigit(t[i]) THEN JsNumber(DecimalValue(t))
    ELSE JsNaN

\* Number(v)
NumberOf(v) ==
  IF v.kind = "number" THEN v
  ELSE IF v.kind = "string" THEN StringToNumber(v.str)
  ELSE IF v.kind = "array" THEN StringToNumber(StringOf(v))
  ELSE IF v.kind = "null" THEN JsNumber(0)
  ELSE JsNaN

IsNullish(v) == v.kind \in {"undefined", "null"}

-----------------------------------------------------------------------------
(* Question metadata and per-question accumulators *)

\* opt.value ?? opt.text ?? ''
OptionValue(opt) ==
  IF ~IsNullish(opt.value) THEN opt.value
  ELSE IF ~IsNullish(opt.text) THEN opt.text
  ELSE JsString(<<>>)

\* position of the entry of a keyed list (an object or a Map in insertion
\* order) that holds `key`, 0 when there is none
RECURSIVE KeyIndex(_, _, _)
KeyIndex(entries, key, i) ==
  IF i > Len(entries) THEN 0
  ELSE IF entries[i].key = key THEN i
  ELSE KeyIndex(entries, key, i + 1)

HasKey(entries, key) == KeyIndex(entries, key, 1) # 0

Lookup(entries, key) == entries[KeyIndex(entries, key, 1)].val

\* obj[key] = val, map.set(key, val): a present key keeps its position
Put(entries, key, val) ==
  IF HasKey(entries, key)
    THEN [entries EXCEPT ![KeyIndex(entries, key, 1)] = [key |-> key, val |-> val]]
    ELSE Append(entries, [key |-> key, val |-> val])

\* Object.values(obj), Array.from(map.entries()) keep the insertion order
Values(entries) == [i \in 1..Len(entries) |-> entries[i].val]

MetaOf(q) ==
  [questionId |-> q.id,
   text |-> q.text,
   type |-> q.type,
   order |-> q.order,
   options |-> [i \in 1..Len(q.options) |->
                  [value |-> OptionValue(q.options[i]), text |-> q.options[i].text]]]

\* mutant: a question whose id is already indexed is left out
RECURSIVE QuestionMetaFirstWins(_)
QuestionMetaFirstWins(questions) ==
  IF questions = <<>> THEN <<>>
  ELSE LET q == questions[Len(questions)]
           prior == QuestionMetaFirstWins(SubSeq(questions, 1, Len(questions) - 1))
       IN IF HasKey(prior, q.id) THEN prior ELSE Put(prior, q.id, MetaOf(q))

\* survey.questions.forEach: questionMeta[qId] = {...}
RECURSIVE QuestionMeta(_)
QuestionMeta(questions) ==
  IF questions = <<>> THEN <<>>
  ELSE LET q == questions[Len(questions)] IN
    Put(QuestionMeta(SubSeq(questions, 1, Len(questions) - 1)), q.id, MetaOf(q))

NewStats(q) ==
  [questionId |-> q.questionId,
   questionText |-> q.text,
   type |-> q.type,
   order |-> q.order,
   reached |-> 0,
   totalAnswers |-> 0,
   textCount |-> 0,
   optionCounts |-> <<>>,
   ratingCounts |-> <<>>]

RECURSIVE InitStats(_)
InitStats(metas) ==
  IF metas = <<>> THEN <<>>
  ELSE LET q == metas[Len(metas)] IN
    Put(InitStats(SubSeq(metas, 1, Len(metas) - 1)), q.questionId, NewStats(q))

ChoiceTypes == {"multiple_choice", "ranking"}

RatingTypes == {"rating", "star_rating"}

TextTypes == {"short_text", "long_text"}

-----------------------------------------------------------------------------
(* The response loop *)

\* Count only non-empty answers
HasValue(answer) ==
  /\ answer.kind # "undefined"
  /\ answer.kind # "null"
  /\ (answer.kind # "string" \/ Trim(answer.str) # <<>>)

\* mutant: a value seen for the first time is put in front of the others
IncrementPrepending(counts, key) ==
  IF HasKey(counts, key)
    THEN Put(counts, key, Lookup(counts, key) + 1)
    ELSE <<[key |-> key, val |-> 1]>> \o counts

\* const prev = map.get(key) || 0; map.set(key, prev + 1)
Increment(counts, key) ==
  Put(counts, key, (IF HasKey(counts, key) THEN Lookup(counts, key) ELSE 0) + 1)

RECURSIVE IncrementAll(_, _)
IncrementAll(counts, keys) ==
  IF keys = <<>> THEN counts
  ELSE IncrementAll(Increment(counts, Head(keys)), Tail(keys))

\* mutant: the array test is dropped, a list is tallied as one joined value
RawValuesJoined(answer) == <<StringOf(answer)>>

\* Array.isArray(answer) ? answer : [answer], each mapped through String
RawValues(answer) ==
  IF answer.kind = "array"
    THEN [i \in 1..Len(answer.list) |-> StringOf(answer.list[i])]
    ELSE <<StringOf(answer)>>

\* mutant: a rating is tallied without the Number.isNaN test
CountAnswerTallyingNaN(stats, answer) ==
  LET counted == [stats EXCEPT !.totalAnswers = @ + 1] IN
    IF stats.type \in ChoiceTypes
      THEN [counted EXCEPT !.optionCounts = IncrementAll(@, RawValues(answer))]
    ELSE IF stats.type \in RatingTypes
      THEN [counted EXCEPT !.ratingCounts = Increment(@, StringOf(NumberOf(answer)))]
    ELSE IF stats.type \in TextTypes
      THEN [counted EXCEPT !.textCount = @ + 1]
    ELSE counted

\* the update of one accumulator by one non-empty answer
CountAnswer(stats, answer) ==
  LET counted == [stats EXCEPT !.totalAnswers = @ + 1] IN
    IF stats.type \in ChoiceTypes
      THEN [counted EXCEPT !.optionCounts = IncrementAll(@, RawValues(answer))]
    ELSE IF stats.type \in RatingTypes
      THEN LET num == NumberOf(answer) IN
        IF num.kind # "nan"
          THEN [counted EXCEPT !.ratingCounts = Increment(@, StringOf(num))]
          ELSE counted
    ELSE IF stats.type \in TextTypes
      THEN [counted EXCEPT !.textCount = @ + 1]
    ELSE counted

\* an answer document that carries no questionId
NoId == "undefined"

\* mutant: an id without accumulator falls to the first accumulator
TargetOfFallback(perQuestionStats, a) ==
  IF a.questionId = NoId \/ perQuestionStats = <<>> THEN NoId
  ELSE IF HasKey(perQuestionStats, a.questionId) THEN a.questionId
  ELSE perQuestionStats[1].key

\* const qId = a.questionId && a.questionId.toString();
\* if (!qId || !perQuestionStats[qId]) return;
\* the key of the accumulator the answer goes to, NoId when it is skipped
TargetOf(perQuestionStats, a) ==
  IF a.questionId = NoId \/ ~HasKey(perQuestionStats, a.questionId)
    THEN NoId
    ELSE a.questionId

\* mutant: reached is raised per answer, without the per-response set
ProcessAnswerReaching(acc, a) ==
  LET qId == TargetOf(acc.stats, a) IN
    IF qId = NoId THEN acc
    ELSE LET old == Lookup(acc.stats, qId)
             hit == [old EXCEPT !.reached = @ + 1]
         IN [stats |-> Put(acc.stats, qId,
                           IF HasValue(a.answer) THEN CountAnswer(hit, a.answer) ELSE hit),
             seen |-> acc.seen]

\* the body of (r.answers || []).forEach; acc is [stats, seen]
ProcessAnswer(acc, a) ==
  LET qId == TargetOf(acc.stats, a) IN
    IF qId = NoId THEN acc
    ELSE LET seen == acc.seen \cup {qId} IN
      IF ~HasValue(a.answer)
        THEN [stats |-> acc.stats, seen |-> seen]
        ELSE [stats |-> Put(acc.stats, qId, CountAnswer(Lookup(acc.stats, qId), a.answer)),
              seen |-> seen]

RECURSIVE ProcessAnswers(_, _)
ProcessAnswers(acc, answers) ==
  IF answers = <<>> THEN acc
  ELSE ProcessAnswers(ProcessAnswer(acc, Head(answers)), Tail(answers))

\* mutant: a response that reached any question raises every question
MarkReachedAll(perQuestionStats, seen) ==
  [i \in 1..Len(perQuestionStats) |->
     IF seen # {}
       THEN [perQuestionStats[i] EXCEPT !.val.reached = @ + 1]
       ELSE perQuestionStats[i]]

\* seenQuestionIds.forEach: stats.reached += 1
MarkReached(perQuestionStats, seen) ==
  [i \in 1..Len(perQuestionStats) |->
     IF perQuestionStats[i].key \in seen
       THEN [perQuestionStats[i] EXCEPT !.val.reached = @ + 1]
       ELSE perQuestionStats[i]]

\* mutant: a partial response is counted only when it holds an answer
ClassifyAnswered(totals, r) ==
  IF r.isCompleted
    THEN [totals EXCEPT !.completedResponses = @ + 1]
    ELSE IF r.answers # <<>>
      THEN [totals EXCEPT !.partialResponses = @ + 1]
      ELSE totals

\* completedResponses / partialResponses of one more response
Classify(totals, r) ==
  IF r.isCompleted
    THEN [totals EXCEPT !.completedResponses = @ + 1]
    ELSE [totals EXCEPT !.partialResponses = @ + 1]

\* typeof r.timeSpent === 'number'
AddsTime(r) == r.timeSpent.kind = "number"

\* mutant: the answers of a partial response are left out
CountCompletedResponse(perQuestionStats, r) ==
  IF r.isCompleted
    THEN LET acc == ProcessAnswers([stats |-> perQuestionStats, seen |-> {}], r.answers)
         IN MarkReached(acc.stats, acc.seen)
    ELSE perQuestionStats

\* the per-question part of one response
CountResponse(perQuestionStats, r) ==
  LET acc == ProcessAnswers([stats |-> perQuestionStats, seen |-> {}], r.answers)
  IN MarkReached(acc.stats, acc.seen)

\* mutant: once a completed response was seen, every later one is classified
\* as completed
ProcessResponseSticky(agg, r) ==
  [totals |-> Classify(agg.totals,
                [r EXCEPT !.isCompleted = @ \/ agg.totals.completedResponses > 0]),
   sum |-> IF AddsTime(r) THEN agg.sum + r.timeSpent.num ELSE agg.sum,
   count |-> IF AddsTime(r) THEN agg.count + 1 ELSE agg.count,
   stats |-> CountResponse(agg.stats, r)]

\* the body of responses.forEach; agg is [totals, sum, count, stats]
ProcessResponse(agg, r) ==
  [totals |-> Classify(agg.totals, r),
   sum |-> IF AddsTime(r) THEN agg.sum + r.timeSpent.num ELSE agg.sum,
   count |-> IF AddsTime(r) THEN agg.count + 1 ELSE agg.count,
   stats |-> CountResponse(agg.stats, r)]

RECURSIVE ProcessResponses(_, _)
ProcessResponses(agg, rs) ==
  IF rs = <<>> THEN agg
  ELSE ProcessResponses(ProcessResponse(agg, Head(rs)), Tail(rs))

InitTotals(rs) ==
  [totalResponses |-> Len(rs),
   completedResponses |-> 0,
   partialResponses |-> 0,
   averageCompletionTimeSeconds |-> [num |-> 0, den |-> 1]]

\* the accumulators after the loop over all responses
Aggregate(questions, rs) ==
  ProcessResponses(
    [totals |-> InitTotals(rs), sum |-> 0, count |-> 0,
     stats |-> InitStats(Values(QuestionMeta(questions)))],
    rs)

-----------------------------------------------------------------------------
(* The report *)

\* mutant: ascending, but elements of equal key come out in reverse
SortReversingTies(s, keys) ==
  LET Rank(i) == Cardinality({j \in 1..Len(s) :
                    keys[j] < keys[i] \/ (keys[j] = keys[i] /\ j > i)})
  IN [p \in 1..Len(s) |-> s[CHOOSE i \in 1..Len(s) : Rank(i) = p - 1]]

\* Array.prototype.sort with the comparator key(a) - key(b), keys[i] being
\* the key of s[i]: ascending and stable
StableSortBy(s, keys) ==
  LET Rank(i) == Cardinality({j \in 1..Len(s) :
                    keys[j] < keys[i] \/ (keys[j] = keys[i] /\ j < i)})
  IN [p \in 1..Len(s) |-> s[CHOOSE i \in 1..Len(s) : Rank(i) = p - 1]]

\* the keys of a list under one of the comparators
OrderKeys(s) == [i \in 1..Len(s) |-> s[i].order]

CountKeys(s) == [i \in 1..Len(s) |-> 0 - s[i].count]

\* mutant: the comparator is b.value - a.value
ValueKeysDescending(s) == [i \in 1..Len(s) |-> 0 - s[i].value]

ValueKeys(s) == [i \in 1..Len(s) |-> s[i].value]

\* count / totalAnswers * 100, 0 when totalAnswers is 0
Percentage(count, totalAnswers) ==
  IF totalAnswers # 0
    THEN [num |-> count * 100, den |-> totalAnswers]
    ELSE [num |-> 0, den |-> 1]

\* mutant: the sum is divided whatever the count is
AverageUnguarded(sum, count) == [num |-> sum, den |-> count]

\* if (completionTimeCount > 0) average = sum / count, else it stays 0
Average(sum, count) ==
  IF count > 0 THEN [num |-> sum, den |-> count] ELSE [num |-> 0, den |-> 1]

Funnel(perQuestionStats) ==
  LET sorted == StableSortBy(Values(perQuestionStats), OrderKeys(Values(perQuestionStats))) IN
    [i \in 1..Len(sorted) |->
       [questionId |-> sorted[i].questionId,
        questionText |-> sorted[i].questionText,
        order |-> sorted[i].order,
        reached |-> sorted[i].reached]]

RECURSIVE OptionMetaByValue(_)
OptionMetaByValue(options) ==
  IF options = <<>> THEN <<>>
  ELSE LET opt == options[Len(options)] IN
    Put(OptionMetaByValue(SubSeq(options, 1, Len(options) - 1)),
        StringOf(OptionValue(opt)), opt)

\* mutant: the label is the raw value, the declared options are not consulted
LabelOfRaw(byValue, value) == value

\* (optionMetaByValue.get(value) || { text: value }).text || value
LabelOf(byValue, value) ==
  LET text == IF HasKey(byValue, value) THEN Lookup(byValue, value).text
              ELSE JsString(value)
  IN IF IsNullish(text) \/ text.str = <<>> THEN value ELSE text.str

\* mutant: the declared options are reported, tallied or not
ChoiceOptionsDeclared(stats, meta) ==
  LET options == [i \in 1..Len(meta.options) |->
                    LET value == StringOf(meta.options[i].value) IN
                      [value |-> value,
                       label |-> LabelOf(OptionMetaByValue(meta.options), value),
                       count |-> IF HasKey(stats.optionCounts, value)
                                   THEN Lookup(stats.optionCounts, value) ELSE 0,
                       percentage |-> Percentage(IF HasKey(stats.optionCounts, value)
                                                   THEN Lookup(stats.optionCounts, value) ELSE 0,
                                                 stats.totalAnswers)]]
  IN StableSortBy(options, CountKeys(options))

\* Array.from(stats.optionCounts.entries()).map(...) sorted by b.count - a.count
ChoiceOptions(stats, meta) ==
  LET byValue == OptionMetaByValue(meta.options)
      options == [i \in 1..Len(stats.optionCounts) |->
                    [value |-> stats.optionCounts[i].key,
                     label |-> LabelOf(byValue, stats.optionCounts[i].key),
                     count |-> stats.optionCounts[i].val,
                     percentage |-> Percentage(stats.optionCounts[i].val, stats.totalAnswers)]]
  IN StableSortBy(options, CountKeys(options))

RatingDistribution(stats) ==
  LET distribution == [i \in 1..Len(stats.ratingCounts) |->
                         [value |-> NumberOf(JsString(stats.ratingCounts[i].key)).num,
                          count |-> stats.ratingCounts[i].val,
                          percentage |-> Percentage(stats.ratingCounts[i].val, stats.totalAnswers)]]
  IN StableSortBy(distribution, ValueKeys(distribution))

\* the payload keys spread after ...base for each kind; the fallback for
\* unsupported types carries none
PayloadFields(type) ==
  IF type \in ChoiceTypes THEN {"options"}
  ELSE IF type \in RatingTypes THEN {"distribution"}
  ELSE IF type \in TextTypes THEN {"textCount"}
  ELSE {}

\* one entry of questionsAnalytics; `fields` names the payload keys the entry
\* carries, the payload fields it does not carry are left empty
QuestionAnalytics(stats, meta) ==
  [questionId |-> stats.questionId,
   questionText |-> stats.questionText,
   type |-> stats.type,
   order |-> stats.order,
   totalAnswers |-> stats.totalAnswers,
   kind |-> IF stats.type \in ChoiceTypes THEN "choice"
            ELSE IF stats.type \in RatingTypes THEN "rating"
            ELSE IF stats.type \in TextTypes THEN "text"
            ELSE "unknown",
   options |-> IF stats.type \in ChoiceTypes THEN ChoiceOptions(stats, meta) ELSE <<>>,
   distribution |-> IF stats.type \in RatingTypes THEN RatingDistribution(stats) ELSE <<>>,
   textCount |-> IF stats.type \in TextTypes THEN stats.textCount ELSE 0,
   fields |-> PayloadFields(stats.type)]

QuestionsAnalytics(perQuestionStats, questionMeta) ==
  LET sorted == StableSortBy(Values(perQuestionStats), OrderKeys(Values(perQuestionStats))) IN
    [i \in 1..Len(sorted) |->
       QuestionAnalytics(sorted[i], Lookup(questionMeta, sorted[i].questionId))]

\* the data getAnalytics sends for a survey and its response collection
Analytics(questions, rs) ==
  LET agg == Aggregate(questions, rs) IN
    [totals |-> [agg.totals EXCEPT
                   !.averageCompletionTimeSeconds = Average(agg.sum, agg.count)],
     funnel |-> Funnel(agg.stats),
     questions |-> QuestionsAnalytics(agg.stats, QuestionMeta(questions))]

-----------------------------------------------------------------------------
(* The documents the model draws its inputs from *)

Absent == JsUndefined

Opt(text, value) == [text |-> text, value |-> value]

Question(id, type, order, options) ==
  [id |-> id, text |-> id, type |-> type, order |-> order, options |-> options]

\* a choice question with three options, a rating and a text question
SurveyMixed ==
  [questions |-> <<
     Question("q1", "multiple_choice", 0,
              <<Opt(JsString(<<"A">>), Absent),
                Opt(JsString(<<"B">>), Absent),
                Opt(JsString(<<"C">>), Absent)>>),
     Question("q2", "rating", 1, <<>>),
     Question("q3", "short_text", 2, <<>>)>>]

Surveys == {SurveyMixed}

Blank == JsString(<<" ", " ">>)

TextA == JsString(<<"A">>)

ListAC == JsArray(<<JsString(<<"A">>), JsString(<<"C">>)>>)

EmptyList == JsArray(<<>>)

Four == JsNumber(4)

Answer(questionId, answer) == [questionId |-> questionId, answer |-> answer]

\* the answers arrays a response may hold: none, one empty answer of each
\* kind, scalar and list selections, two answers for one question, answers
\* for several questions, an unknown and a missing questionId
AnswerLists ==
  {<<>>,
   <<Answer("q1", JsNull)>>,
   <<Answer("q1", EmptyList)>>,
   <<Answer("q1", ListAC)>>,
   <<Answer("q1", Blank), Answer("q1", TextA)>>,
   <<Answer("q1", TextA), Answer("q1", ListAC)>>,
   <<Answer("q2", Four)>>,
   <<Answer("q2", TextA), Answer("q3", TextA)>>,
   <<Answer("q2", JsUndefined), Answer("q3", EmptyList)>>,
   <<Answer("qX", TextA), Answer("q1", TextA)>>,
   <<Answer(NoId, TextA), Answer("q2", EmptyList)>>}

\* isCompleted and timeSpent of a response: completed with and without a
\* time, partial with and without a time
FlagSet ==
  {[isCompleted |-> TRUE, timeSpent |-> JsNumber(10)],
   [isCompleted |-> TRUE, timeSpent |-> JsUndefined],
   [isCompleted |-> FALSE, timeSpent |-> JsNumber(30)],
   [isCompleted |-> FALSE, timeSpent |-> JsUndefined]}

ResponseSet ==
  {[isCompleted |-> f.isCompleted, timeSpent |-> f.timeSpent, answers |-> as] :
     f \in FlagSet, as \in AnswerLists}

-----------------------------------------------------------------------------
(* The state machine *)

NoReport == [outcome |-> "none", data |-> <<>>]

Init ==
  /\ survey \in Surveys
  /\ responses = <<>>
  /\ report = NoReport
  /\ requests = {}

\* a response document of the survey is saved
StoreResponse(r) ==
  /\ Len(responses) < MaxResponses
  /\ responses' = Append(responses, r)
  /\ report' = NoReport
  /\ UNCHANGED <<survey, requests>>

\* an element of an answers array that is null instead of a document
NullElement == [questionId |-> "null", answer |-> JsNull]

\* mutant: an answer for an id without accumulator is fatal as well
RaisesOnUnknownId(questions, rs) ==
  \E i \in 1..Len(rs) : \E j \in 1..Len(rs[i].answers) :
    \/ rs[i].answers[j] = NullElement
    \/ ~HasKey(QuestionMeta(questions), rs[i].answers[j].questionId)

\* the loop throws a TypeError when it reads a.questionId of a null element;
\* every other read is guarded (a.questionId &&, typeof answer, Array.isArray)
Raises(questions, rs) ==
  \E i \in 1..Len(rs) : \E j \in 1..Len(rs[i].answers) : rs[i].answers[j] = NullElement

\* catch (error): sendError(res, error.message, 500)
ErrorReport == [outcome |-> "error", data |-> <<>>]

\* mutant: the tallies of an earlier run are carried into the next one
GetAnalyticsCarrying ==
  /\ report' = [outcome |-> "success",
                data |-> Analytics(survey.questions,
                                   IF report.outcome = "success"
                                     THEN responses \o responses
                                     ELSE responses)]
  /\ UNCHANGED <<survey, responses, requests>>

\* GET /surveys/:id/analytics by the owner of the survey
GetAnalytics ==
  /\ report' = IF Raises(survey.questions, responses)
                 THEN ErrorReport
                 ELSE [outcome |-> "success", data |-> Analytics(survey.questions, responses)]
  /\ UNCHANGED <<survey, responses, requests>>

Next ==
  \/ \E r \in ResponseSet : StoreResponse(r)
  \/ GetAnalytics

Spec == Init /\ [][Next]_vars

-----------------------------------------------------------------------------
(* Surveys whose questions are out of order, of every report kind, with    *)
(* declared option values, and the responses given to them                 *)

SurveyEmpty == [questions |-> <<>>]

Alpha == JsString(<<"A", "l", "p", "h", "a">>)

Beta == JsString(<<"B", "e", "t", "a">>)

\* q3 and q1 share order 1 and q3 stands first in the list; q1 declares an
\* option with a value, one whose value was left blank in the editor and one
\* with a value and a blank text; q3 is of a type the report does not know
SurveyTied ==
  [questions |-> <<
     Question("q3", "dropdown", 1, <<>>),
     Question("q2", "star_rating", 0, <<>>),
     Question("q1", "ranking", 1,
              <<Opt(Alpha, JsString(<<"A">>)),
                Opt(Beta, JsString(<<>>)),
                Opt(JsString(<<>>), JsString(<<"C">>))>>)>>]

FormSurveys == {SurveyEmpty, SurveyTied, SurveyMixed}

ListCA == JsArray(<<JsString(<<"C">>), JsString(<<"A">>)>>)

TextZ == JsString(<<"Z">>)

TextTwo == JsString(<<"2">>)

\* selections that match a declared value (A, C), the text of the option
\* without value (Beta) and no option (Z); ratings 4 and "2"; a rating that
\* is no number; empty and non-empty answers for q3
FormAnswerLists ==
  {<<>>,
   <<Answer("q1", TextA)>>,
   <<Answer("q1", ListCA)>>,
   <<Answer("q1", Beta)>>,
   <<Answer("q1", TextZ), Answer("q2", TextTwo)>>,
   <<Answer("q2", Four)>>,
   <<Answer("q2", TextTwo), Answer("q3", Four)>>,
   <<Answer("q2", TextA), Answer("q3", TextA)>>,
   <<Answer("q3", JsNull)>>,
   <<Answer("q3", EmptyList), Answer("q3", TextZ)>>}

FormFlagSet ==
  {[isCompleted |-> TRUE, timeSpent |-> JsNumber(10)],
   [isCompleted |-> FALSE, timeSpent |-> JsUndefined]}

FormResponseSet ==
  {[isCompleted |-> f.isCompleted, timeSpent |-> f.timeSpent, answers |-> as] :
     f \in FormFlagSet, as \in FormAnswerLists}

InitForms ==
  /\ survey \in FormSurveys
  /\ responses = <<>>
  /\ report = NoReport
  /\ requests = {}

NextForms ==
  \/ \E r \in FormResponseSet : StoreResponse(r)
  \/ GetAnalytics

SpecForms == InitForms /\ [][NextForms]_vars

-----------------------------------------------------------------------------
(* A survey whose question list holds the id q1 twice *)

\* q1 first as a text question, then as a choice question of another text
\* and order with a labelled option
SurveyTwice ==
  [questions |-> <<
     [Question("q1", "short_text", 0, <<>>) EXCEPT !.text = "first"],
     Question("q2", "rating", 1, <<>>),
     [Question("q1", "multiple_choice", 2, <<Opt(Alpha, JsString(<<"A">>))>>)
        EXCEPT !.text = "second"]>>]

InitTwice ==
  /\ survey = SurveyTwice
  /\ responses = <<>>
  /\ report = NoReport
  /\ requests = {}

SpecTwice == InitTwice /\ [][NextForms]_vars

-----------------------------------------------------------------------------
(* Response documents as the collection may hold them: answers for unknown *)
(* ids and types, values of a shape the question type does not expect, and *)
(* null in the place of an answer document                                 *)

\* a selection that names the value A twice
ListAA == JsArray(<<JsString(<<"A">>), JsString(<<"A">>)>>)

RawAnswerLists ==
  {<<>>,
   <<Answer("q1", ListAA)>>,
   <<Answer("q2", EmptyList), Answer("q2", Four)>>,
   <<Answer("qX", TextA), Answer("q3", TextA)>>,
   <<Answer("q2", ListCA), Answer("q1", Four)>>,
   <<Answer("q2", TextA), Answer("q3", ListCA)>>,
   <<Answer(NoId, Four), Answer("q1", TextA)>>,
   <<NullElement>>,
   <<Answer("q1", TextA), NullElement>>}

RawResponseSet ==
  {[isCompleted |-> f.isCompleted, timeSpent |-> f.timeSpent, answers |-> as] :
     f \in FormFlagSet, as \in RawAnswerLists}

InitRaw ==
  /\ survey = SurveyTied
  /\ responses = <<>>
  /\ report = NoReport
  /\ requests = {}

NextRaw ==
  \/ \E r \in RawResponseSet : StoreResponse(r)
  \/ GetAnalytics

SpecRaw == InitRaw /\ [][NextRaw]_vars

-----------------------------------------------------------------------------
(* The owner's requests on a survey: updateSurvey, addQuestion,            *)
(* publishSurvey and closeSurvey.  Each handler reads the document with    *)
(* findById, tests it, changes its copy and writes the changed paths with  *)
(* save(); the request is suspended between the read and the write.        *)

\* a survey as createSurvey stores it: status and responseCount by default
DraftSurvey ==
  [questions |-> <<>>,
   status |-> "draft",
   responseCount |-> 0,
   allowMultipleResponses |-> FALSE]

\* a suspended request: the handler, what it read (status, responseCount,
\* questions.length) and what it is about to write or store
Request(op, pc, doc, payload) ==
  [op |-> op,
   pc |-> pc,
   status |-> doc.status,
   count |-> doc.responseCount,
   order |-> Len(doc.questions),
   payload |-> payload]

Sent(outcome, op) == [outcome |-> outcome, data |-> <<op>>]

\* new mongoose.Types.ObjectId(): an id no question and no request holds
FreshIds == <<"q1", "q2", "q3", "q4", "q5", "q6">>

UsedIds ==
  {survey.questions[i].id : i \in 1..Len(survey.questions)}
    \cup {r.payload.id : r \in {x \in requests : x.op = "addQuestion"}}

NewId == FreshIds[CHOOSE i \in 1..Len(FreshIds) :
                   FreshIds[i] \notin UsedIds /\ \A j \in 1..(i - 1) : FreshIds[j] \in UsedIds]

\* the question lists an update request carries: an empty list (a truthy
\* value that replaces the questions) and a list of one question
UpdatePayloads == {<<>>, <<Question("q6", "short_text", 0, <<>>)>>}

\* updateSurvey up to the await of save(): 400 unless the status is draft
BeginUpdateSurvey(questions) ==
  /\ Cardinality(requests) < MaxInFlight
  /\ IF survey.status # "draft"
       THEN /\ report' = Sent("rejected", "updateSurvey")
            /\ UNCHANGED <<survey, responses, requests>>
       ELSE /\ requests' = requests \cup {Request("updateSurvey", "save", survey, questions)}
            /\ UNCHANGED <<survey, responses, report>>

\* survey.questions = questions; await survey.save()
CommitUpdateSurvey(r) ==
  /\ r.op = "updateSurvey"
  /\ survey' = [survey EXCEPT !.questions = r.payload]
  /\ requests' = requests \ {r}
  /\ report' = Sent("success", r.op)
  /\ UNCHANGED responses

\* addQuestion up to the await of save(): the status is not tested
BeginAddQuestion(type) ==
  /\ Cardinality(requests) < MaxInFlight
  /\ Len(survey.questions) + Cardinality({r \in requests : r.op = "addQuestion"}) < MaxQuestions
  /\ requests' = requests \cup
       {Request("addQuestion", "save", survey,
                Question(NewId, type, Len(survey.questions), <<>>))}
  /\ UNCHANGED <<survey, responses, report>>

\* survey.questions.push(question); await survey.save()
CommitAddQuestion(r) ==
  /\ r.op = "addQuestion"
  /\ survey' = [survey EXCEPT !.questions = Append(@, r.payload)]
  /\ requests' = requests \ {r}
  /\ report' = Sent("success", r.op)
  /\ UNCHANGED responses

\* publishSurvey up to the await of save(): 400 when there is no question
BeginPublishSurvey ==
  /\ Cardinality(requests) < MaxInFlight
  /\ IF Len(survey.questions) = 0
       THEN /\ report' = Sent("rejected", "publishSurvey")
            /\ UNCHANGED <<survey, responses, requests>>
       ELSE /\ requests' = requests \cup {Request("publishSurvey", "save", survey, <<>>)}
            /\ UNCHANGED <<survey, responses, report>>

\* survey.status = 'published'; await survey.save()
CommitPublishSurvey(r) ==
  /\ r.op = "publishSurvey"
  /\ survey' = [survey EXCEPT !.status = "published"]
  /\ requests' = requests \ {r}
  /\ report' = Sent("success", r.op)
  /\ UNCHANGED responses

\* closeSurvey up to the await of save()
BeginCloseSurvey ==
  /\ Cardinality(requests) < MaxInFlight
  /\ requests' = requests \cup {Request("closeSurvey", "save", survey, <<>>)}
  /\ UNCHANGED <<survey, responses, report>>

\* survey.status = 'closed'; await survey.save()
CommitCloseSurvey(r) ==
  /\ r.op = "closeSurvey"
  /\ survey' = [survey EXCEPT !.status = "closed"]
  /\ requests' = requests \ {r}
  /\ report' = Sent("success", r.op)
  /\ UNCHANGED responses

InitOwner ==
  /\ survey = DraftSurvey
  /\ responses = <<>>
  /\ report = NoReport
  /\ requests = {}

NextOwner ==
  \/ \E questions \in UpdatePayloads : BeginUpdateSurvey(questions)
  \/ \E type \in {"rating", "short_text"} : BeginAddQuestion(type)
  \/ BeginPublishSurvey
  \/ BeginCloseSurvey
  \/ \E r \in requests : CommitUpdateSurvey(r)
  \/ \E r \in requests : CommitAddQuestion(r)
  \/ \E r \in requests : CommitPublishSurvey(r)
  \/ \E r \in requests : CommitCloseSurvey(r)

SpecOwner == InitOwner /\ [][NextOwner]_vars

-----------------------------------------------------------------------------
(* The requests that store and delete responses of a published survey:     *)
(* submitResponse, savePartialResponse, the public submitSurveyResponse    *)
(* and deleteResponse.  responseCount is written by save() as the value    *)
(* read by findById plus or minus one.                                     *)

\* a published survey of one question that does not allow a respondent to
\* answer more than once
PublishedSurvey ==
  [questions |-> <<Question("q1", "rating", 0, <<>>)>>,
   status |-> "published",
   responseCount |-> 0,
   allowMultipleResponses |-> FALSE]

\* req.user?.userId || null, and the respondentEmail of the request body
NoUser == "null"

NoEmail == "undefined"

Users == {"u1"}

Emails == {"e1"}

ResponseIds == <<"r1", "r2", "r3", "r4", "r5", "r6">>

StoredIds ==
  {responses[i].id : i \in 1..Len(responses)}
    \cup {r.payload.id : r \in {x \in requests : x.pc = "saveResponse"}}

NewResponseId ==
  ResponseIds[CHOOSE i \in 1..Len(ResponseIds) :
                /\ ResponseIds[i] \notin StoredIds
                /\ \A j \in 1..(i - 1) : ResponseIds[j] \in StoredIds]

\* new Response({...}) of the three handlers
ResponseDoc(respondent, email, isCompleted) ==
  [id |-> NewResponseId,
   respondent |-> respondent,
   respondentEmail |-> email,
   isCompleted |-> isCompleted,
   timeSpent |-> JsUndefined,
   answers |-> <<Answer("q1", Four)>>]

\* the responses stored and about to be stored, and the cap of responseCount
CanStart ==
  /\ Cardinality(requests) < MaxInFlight
  /\ Len(responses) + Cardinality({r \in requests : r.pc = "saveResponse"}) < MaxResponses
  /\ survey.responseCount <= MaxResponses

\* submitResponse up to the await of response.save()
BeginSubmitResponse(user) ==
  /\ CanStart
  /\ IF survey.status # "published"
       THEN /\ report' = Sent("rejected", "submitResponse")
            /\ UNCHANGED <<survey, responses, requests>>
       ELSE /\ requests' = requests \cup
                 {Request("submitResponse", "saveResponse", survey,
                          ResponseDoc(user, NoEmail, TRUE))}
            /\ UNCHANGED <<survey, responses, report>>

\* savePartialResponse up to the await of response.save()
BeginSavePartialResponse(user) ==
  /\ CanStart
  /\ requests' = requests \cup
       {Request("savePartialResponse", "saveResponse", survey,
                ResponseDoc(user, NoEmail, FALSE))}
  /\ UNCHANGED <<survey, responses, report>>

\* Response.findOne({ survey, respondent }) and
\* Response.findOne({ survey, respondentEmail })
AlreadyResponded(user, email) ==
  \/ /\ user # NoUser
     /\ \E i \in 1..Len(responses) : responses[i].respondent = user
  \/ /\ email # NoEmail
     /\ \E i \in 1..Len(responses) : responses[i].respondentEmail = email

\* submitSurveyResponse up to the await of response.save(): the survey is
\* found by its link only while published; an anonymous request names an
\* email; a respondent or email already stored is turned down unless the
\* survey allows multiple responses
BeginSubmitSurveyResponse(user, email) ==
  /\ CanStart
  /\ IF survey.status # "published"
         \/ (user = NoUser /\ email = NoEmail)
         \/ (~survey.allowMultipleResponses /\ AlreadyResponded(user, email))
       THEN /\ report' = Sent("rejected", "submitSurveyResponse")
            /\ UNCHANGED <<survey, responses, requests>>
       ELSE /\ requests' = requests \cup
                 {Request("submitSurveyResponse", "saveResponse", survey,
                          ResponseDoc(user, email, TRUE))}
            /\ UNCHANGED <<survey, responses, report>>

\* await response.save(): savePartialResponse answers, the two submissions
\* go on to write the count
SaveResponse(r) ==
  /\ r.pc = "saveResponse"
  /\ responses' = Append(responses, r.payload)
  /\ IF r.op = "savePartialResponse"
       THEN /\ requests' = requests \ {r}
            /\ report' = Sent("success", r.op)
       ELSE /\ requests' = (requests \ {r}) \cup {[r EXCEPT !.pc = "saveCount", !.payload = 1]}
            /\ UNCHANGED report
  /\ UNCHANGED survey

\* deleteResponse up to the await of findByIdAndDelete: the response exists
BeginDeleteResponse(id) ==
  /\ Cardinality(requests) < MaxInFlight
  /\ \E i \in 1..Len(responses) : responses[i].id = id
  /\ requests' = requests \cup {Request("deleteResponse", "delete", survey, id)}
  /\ UNCHANGED <<survey, responses, report>>

\* await Response.findByIdAndDelete(responseId)
DeleteDocument(r) ==
  /\ r.pc = "delete"
  /\ responses' = SelectSeq(responses, LAMBDA d : d.id # r.payload)
  /\ requests' = (requests \ {r}) \cup {[r EXCEPT !.pc = "findSurvey"]}
  /\ UNCHANGED <<survey, report>>

\* const survey = await Survey.findById(response.survey._id)
FindSurvey(r) ==
  /\ r.pc = "findSurvey"
  /\ requests' = (requests \ {r}) \cup
       {[r EXCEPT !.pc = "saveCount", !.count = survey.responseCount, !.payload = 0 - 1]}
  /\ UNCHANGED <<survey, responses, report>>

\* survey.responseCount += 1, or Math.max(0, survey.responseCount - 1), on
\* the document as it was read; await survey.save()
SaveCount(r) ==
  /\ r.pc = "saveCount"
  /\ survey' = [survey EXCEPT !.responseCount =
                  IF r.count + r.payload < 0 THEN 0 ELSE r.count + r.payload]
  /\ requests' = requests \ {r}
  /\ report' = Sent("success", r.op)
  /\ UNCHANGED responses

InitSubmit ==
  /\ survey = PublishedSurvey
  /\ responses = <<>>
  /\ report = NoReport
  /\ requests = {}

NextSubmit ==
  \/ \E user \in Users \cup {NoUser} : BeginSubmitResponse(user)
  \/ \E user \in Users \cup {NoUser} : BeginSavePartialResponse(user)
  \/ \E user \in Users \cup {NoUser}, email \in Emails \cup {NoEmail} :
       BeginSubmitSurveyResponse(user, email)
  \/ \E r \in requests : SaveResponse(r)
  \/ \E i \in 1..Len(ResponseIds) : BeginDeleteResponse(ResponseIds[i])
  \/ \E r \in requests : DeleteDocument(r)
  \/ \E r \in requests : FindSurvey(r)
  \/ \E r \in requests : SaveCount(r)

SpecSubmit == InitSubmit /\ [][NextSubmit]_vars

-----------------------------------------------------------------------------
(* What the claims speak of: the input as stored, the report as sent *)

Done == report.outcome = "success"

QuestionIds == {survey.questions[i].id : i \in 1..Len(survey.questions)}

TypeOfQuestion(q) ==
  (CHOOSE x \in {survey.questions[i] : i \in 1..Len(survey.questions)} : x.id = q).type

ReachedIn(data, q) ==
  (CHOOSE f \in {data.funnel[i] : i \in 1..Len(data.funnel)} : f.questionId = q).reached

EntryIn(data, q) ==
  CHOOSE e \in {data.questions[i] : i \in 1..Len(data.questions)} : e.questionId = q

RECURSIVE SumOver(_, _)
SumOver(f, S) ==
  IF S = {} THEN 0
  ELSE LET x == CHOOSE y \in S : TRUE IN f[x] + SumOver(f, S \ {x})

SumSeq(s) == SumOver(s, DOMAIN s)

\* the emptiness policy: null/undefined, blank after trimming, or empty list
IsEmptyValue(v) ==
  \/ v.kind \in {"null", "undefined"}
  \/ (v.kind = "string" /\ Trim(v.str) = <<>>)
  \/ (v.kind = "array" /\ v.list = <<>>)

AnswerSlots(r, q) == {j \in 1..Len(r.answers) : r.answers[j].questionId = q}

NonEmptySlots(r, q) == {j \in AnswerSlots(r, q) : ~IsEmptyValue(r.answers[j].answer)}

\* C1 (as claimed): for every question, reached equals the number of
\* responses holding at least one non-empty answer for it; a response whose
\* answers for the question are all empty adds nothing.
C1_ReachedCountsNonEmpty ==
  Done =>
    \A q \in QuestionIds :
      ReachedIn(report.data, q) =
        Cardinality({i \in 1..Len(responses) : NonEmptySlots(responses[i], q) # {}})

WithoutEmptyAnswers(rs) ==
  LET NonEmpty(a) == ~IsEmptyValue(a.answer) IN
    [i \in 1..Len(rs) |-> [rs[i] EXCEPT !.answers = SelectSeq(@, NonEmpty)]]

\* C2 (as claimed): an empty answer (null, undefined, blank string, empty
\* list) never raises totalAnswers nor an option, rating or text tally:
\* every question entry is the one computed with the empty answers left out.
C2_EmptyNeverCounted ==
  Done =>
    report.data.questions =
      Analytics(survey.questions, WithoutEmptyAnswers(responses)).questions

ChoiceQuestions == {q \in QuestionIds : TypeOfQuestion(q) \in ChoiceTypes}

OptionCountSum(entry) ==
  SumSeq([i \in 1..Len(entry.options) |-> entry.options[i].count])

NoEmptyAnswers ==
  \A i \in 1..Len(responses) : \A j \in 1..Len(responses[i].answers) :
    ~IsEmptyValue(responses[i].answers[j].answer)

IsCounted(v) ==
  ~(v.kind \in {"null", "undefined"}) /\ ~(v.kind = "string" /\ Trim(v.str) = <<>>)

\* the selections an answer holds: the elements of a list, else the value
Selections(v) == IF v.kind = "array" THEN v.list ELSE <<v>>

CountedSlots(r, q) == {j \in AnswerSlots(r, q) : IsCounted(r.answers[j].answer)}

AllCountedSlots(q) ==
  UNION {{<<i, j>> : j \in CountedSlots(responses[i], q)} : i \in 1..Len(responses)}

SelectionCount(q) ==
  SumOver([p \in AllCountedSlots(q) |->
             Len(Selections(responses[p[1]].answers[p[2]].answer))],
          AllCountedSlots(q))

TimesSelected(q, key) ==
  SumOver([p \in AllCountedSlots(q) |->
             LET sel == Selections(responses[p[1]].answers[p[2]].answer)
             IN Cardinality({k \in 1..Len(sel) : StringOf(sel[k]) = key})],
          AllCountedSlots(q))

HasNumericTime(r) == r.timeSpent.kind = "number"

CompletedTimed == {i \in 1..Len(responses) : responses[i].isCompleted /\ HasNumericTime(responses[i])}

\* C4 (as claimed): the average is the mean of timeSpent over the responses
\* that are completed and carry a numeric timeSpent, 0 when there is none.
C4_AverageOverCompleted ==
  Done =>
    LET avg == report.data.totals.averageCompletionTimeSeconds
        total == SumOver([i \in CompletedTimed |-> responses[i].timeSpent.num], CompletedTimed)
    IN IF CompletedTimed = {}
         THEN avg.num = 0
         ELSE avg.num * Cardinality(CompletedTimed) = total * avg.den

\* C5: completed + partial = total, total being the number of responses and
\* each response counted in the class its isCompleted flag names.
C5_TotalsPartition ==
  Done =>
    LET t == report.data.totals IN
      /\ t.completedResponses + t.partialResponses = t.totalResponses
      /\ t.totalResponses = Len(responses)
      /\ t.completedResponses = Cardinality({i \in 1..Len(responses) : responses[i].isCompleted})
      /\ t.partialResponses = Cardinality({i \in 1..Len(responses) : ~responses[i].isCompleted})

\* a completed and a partial response, one of them without any answer
C5_Witness ==
  /\ Done
  /\ Len(responses) = 2
  /\ responses[1].isCompleted /\ responses[1].answers = <<>>
  /\ ~responses[2].isCompleted /\ responses[2].answers # <<>>
  /\ report.data.totals.completedResponses = 1
  /\ report.data.totals.partialResponses = 1

\* C6: no question's reached count exceeds totalResponses.
C6_ReachedAtMostTotal ==
  Done =>
    \A i \in 1..Len(report.data.funnel) :
      report.data.funnel[i].reached <= report.data.totals.totalResponses

\* a response answers the same question twice and is counted once
C6_Witness ==
  /\ Done
  /\ Len(responses) = 1
  /\ Cardinality(NonEmptySlots(responses[1], "q1")) = 2
  /\ ReachedIn(report.data, "q1") = 1

NoDuplicateAnswers ==
  \A i \in 1..Len(responses) : \A q \in QuestionIds :
    Cardinality(AnswerSlots(responses[i], q)) <= 1

\* C7 (as claimed): when no response holds two answers for one question,
\* totalAnswers equals reached for every question.
C7_TotalEqualsReached ==
  (Done /\ NoDuplicateAnswers) =>
    \A q \in QuestionIds :
      EntryIn(report.data, q).totalAnswers = ReachedIn(report.data, q)

IsKnownAnswer(a) == a.questionId \in QuestionIds

WithoutUnknownAnswers(rs) ==
  [i \in 1..Len(rs) |-> [rs[i] EXCEPT !.answers = SelectSeq(@, IsKnownAnswer)]]

\* C8: an answer whose questionId names no question of the survey is
\* ignored: the request ends with a report, and the report (totals, funnel,
\* questions) is the one computed with those answers removed.
C8_UnknownQuestionIgnored ==
  /\ report.outcome \in {"none", "success"}
  /\ Done => report.data = Analytics(survey.questions, WithoutUnknownAnswers(responses))

\* a response holds an answer for an unknown id next to a counted answer
C8_Witness ==
  /\ Done
  /\ Len(responses) = 1
  /\ responses[1].answers = <<Answer("qX", TextA), Answer("q1", TextA)>>
  /\ EntryIn(report.data, "q1").totalAnswers = 1
  /\ ReachedIn(report.data, "q1") = 1

RemoveAt(rs, i) == SubSeq(rs, 1, i - 1) \o SubSeq(rs, i + 1, Len(rs))

\* the accumulators while response i is processed, after j of its answers
AccumulatorsAt(i, j) ==
  ProcessAnswers(
    [stats |-> Aggregate(survey.questions, SubSeq(responses, 1, i - 1)).stats, seen |-> {}],
    SubSeq(responses[i].answers, 1, j))

\* C9: a response without an answer for q leaves q's funnel entry and
\* question entry as they are without that response, completed or not; and
\* an answer for p changes no accumulator but p's.
C9_OtherQuestionsUntouched ==
  Done =>
    \A i \in 1..Len(responses) :
      /\ \A q \in QuestionIds :
           AnswerSlots(responses[i], q) = {} =>
             LET without == Analytics(survey.questions, RemoveAt(responses, i)) IN
               /\ ReachedIn(report.data, q) = ReachedIn(without, q)
               /\ EntryIn(report.data, q) = EntryIn(without, q)
      /\ \A j \in 1..Len(responses[i].answers) :
           LET before == AccumulatorsAt(i, j - 1).stats
               after == AccumulatorsAt(i, j).stats
           IN \A k \in 1..Len(before) :
                before[k].key # responses[i].answers[j].questionId => after[k] = before[k]

\* a partial response answers q1 only while q2 holds an answer of another
C9_Witness ==
  /\ Done
  /\ Len(responses) = 2
  /\ responses[1].answers = <<Answer("q2", Four)>>
  /\ ~responses[2].isCompleted
  /\ responses[2].answers = <<Answer("q1", ListAC)>>
  /\ EntryIn(report.data, "q2").totalAnswers = 1
  /\ ReachedIn(report.data, "q2") = 1

\* the collection with every response made partial and without timeSpent
FlagsCleared(rs) ==
  [i \in 1..Len(rs) |-> [rs[i] EXCEPT !.isCompleted = FALSE, !.timeSpent = JsUndefined]]

\* C10: the isCompleted flag and the timeSpent of a response touch the
\* totals only: funnel and questions are those of the collection with all
\* flags and times cleared, hence equal for any two collections that differ
\* in the isCompleted or timeSpent of any response.
C10_FlagsTouchTotalsOnly ==
  Done =>
    LET cleared == Analytics(survey.questions, FlagsCleared(responses)) IN
      /\ cleared.funnel = report.data.funnel
      /\ cleared.questions = report.data.questions

\* only partial responses, and their answers are in funnel and tallies
C10_Witness ==
  /\ Done
  /\ Len(responses) = 2
  /\ \A i \in 1..2 : ~responses[i].isCompleted /\ responses[i].answers = <<Answer("q1", ListAC)>>
  /\ ReachedIn(report.data, "q1") = 2
  /\ EntryIn(report.data, "q1").totalAnswers = 2
  /\ report.data.totals.partialResponses = 2

-----------------------------------------------------------------------------
(* Claims on the report's shape, checked under SpecForms *)

ZeroTotals ==
  [totalResponses |-> 0,
   completedResponses |-> 0,
   partialResponses |-> 0,
   averageCompletionTimeSeconds |-> [num |-> 0, den |-> 1]]

\* C11: a survey without questions yields an empty funnel and an empty
\* questions list; a collection without responses yields totals that are all
\* 0 (the average included) and reached = totalAnswers = 0 for every
\* question, one entry per question; no request ends in an error outcome.
C11_EmptyInputsZeroFilled ==
  /\ report.outcome \in {"none", "success"}
  /\ (Done /\ survey.questions = <<>>) =>
       /\ report.data.funnel = <<>>
       /\ report.data.questions = <<>>
       /\ report.data.totals.totalResponses = Len(responses)
  /\ (Done /\ responses = <<>>) =>
       /\ report.data.totals = ZeroTotals
       /\ Len(report.data.funnel) = Len(survey.questions)
       /\ Len(report.data.questions) = Len(survey.questions)
       /\ \A i \in 1..Len(report.data.funnel) : report.data.funnel[i].reached = 0
       /\ \A i \in 1..Len(report.data.questions) : report.data.questions[i].totalAnswers = 0

\* a survey without questions is reported on while a response with answers
\* is stored for it
C11_Witness ==
  /\ Done
  /\ survey.questions = <<>>
  /\ Len(responses) = 1
  /\ responses[1].answers # <<>>
  /\ report.data.funnel = <<>>
  /\ report.data.totals.totalResponses = 1

PositionOf(q) == CHOOSE i \in 1..Len(survey.questions) : survey.questions[i].id = q

\* the question ids of a list of report entries, in list order
IdsOf(entries) == [i \in 1..Len(entries) |-> entries[i].questionId]

\* C13: funnel and questions hold exactly one entry per question id of the
\* survey, each with the question's order, sorted by order ascending, two
\* questions of equal order standing as they stand in the survey's question
\* list; both lists present the questions in the same sequence.
C13_OneEntryPerQuestionInOrder ==
  Done =>
    LET f == report.data.funnel IN
      /\ Len(f) = Len(survey.questions)
      /\ {f[i].questionId : i \in 1..Len(f)} = QuestionIds
      /\ \A i \in 1..Len(f) : f[i].order = survey.questions[PositionOf(f[i].questionId)].order
      /\ \A i, j \in 1..Len(f) :
           i < j =>
             \/ f[i].order < f[j].order
             \/ /\ f[i].order = f[j].order
                /\ PositionOf(f[i].questionId) < PositionOf(f[j].questionId)
      /\ IdsOf(report.data.questions) = IdsOf(f)

\* the survey lists q3, q2, q1 with orders 1, 0, 1: the report lists q2,
\* then q3 and q1 as the survey lists them
C13_Witness ==
  /\ Done
  /\ [i \in 1..Len(survey.questions) |-> survey.questions[i].id] = <<"q3", "q2", "q1">>
  /\ IdsOf(report.data.funnel) = <<"q2", "q3", "q1">>
  /\ IdsOf(report.data.questions) = <<"q2", "q3", "q1">>
  /\ responses # <<>>

\* the selections observed for q: response i, answer j of it, element k of
\* that answer (a scalar being its own single element)
ObservedAt(q) ==
  UNION {{<<p[1], p[2], k>> :
            k \in 1..Len(Selections(responses[p[1]].answers[p[2]].answer))} :
         p \in AllCountedSlots(q)}

ValueAt(t) == StringOf(Selections(responses[t[1]].answers[t[2]].answer)[t[3]])

\* t is scanned before u: responses, then answers, then elements in order
ScannedBefore(t, u) ==
  \/ t[1] < u[1]
  \/ (t[1] = u[1] /\ t[2] < u[2])
  \/ (t[1] = u[1] /\ t[2] = u[2] /\ t[3] < u[3])

\* the observation at which value v is seen first for question q
FirstSeen(q, v) ==
  CHOOSE t \in ObservedAt(q) :
    /\ ValueAt(t) = v
    /\ \A u \in ObservedAt(q) : ValueAt(u) = v => (u = t \/ ScannedBefore(t, u))

\* C14: the options of a multiple_choice or ranking question are sorted by
\* count descending, and two options of equal count stand in the order in
\* which their values were first observed, scanning the responses and, in
\* each, the answers and their elements in input order.
C14_OptionsByCountThenFirstSeen ==
  Done =>
    \A q \in ChoiceQuestions :
      LET o == EntryIn(report.data, q).options IN
        \A a, b \in 1..Len(o) :
          a < b =>
            \/ o[a].count > o[b].count
            \/ /\ o[a].count = o[b].count
               /\ ScannedBefore(FirstSeen(q, o[a].value), FirstSeen(q, o[b].value))

\* C and A are selected in one list and Z by a later response, once each:
\* the options come as C, A, Z, not as the survey declares them
C14_Witness ==
  /\ Done
  /\ survey = SurveyTied
  /\ Len(responses) = 2
  /\ responses[1].answers = <<Answer("q1", ListCA)>>
  /\ responses[2].answers = <<Answer("q1", TextZ), Answer("q2", TextTwo)>>
  /\ [i \in 1..3 |-> EntryIn(report.data, "q1").options[i].value] = <<<<"C">>, <<"A">>, <<"Z">>>>
  /\ \A i \in 1..3 : EntryIn(report.data, "q1").options[i].count = 1

-----------------------------------------------------------------------------
(* Claims on the rating and text tallies *)

RatingQuestions == {q \in QuestionIds : TypeOfQuestion(q) \in RatingTypes}

AllNonEmptySlots(q) ==
  UNION {{<<i, j>> : j \in NonEmptySlots(responses[i], q)} : i \in 1..Len(responses)}

\* the non-empty answers for q whose value converts to the number n
NumericSlots(q, n) ==
  {p \in AllNonEmptySlots(q) :
     LET num == NumberOf(responses[p[1]].answers[p[2]].answer)
     IN num.kind = "number" /\ num.num = n}

\* the numbers the non-empty answers for q convert to
NumbersObserved(q) ==
  {NumberOf(responses[p[1]].answers[p[2]].answer).num :
     p \in {s \in AllNonEmptySlots(q) :
              NumberOf(responses[s[1]].answers[s[2]].answer).kind = "number"}}

\* C15 (as claimed): the distribution of a rating or star_rating question
\* holds one entry per distinct number that a non-empty answer (null,
\* undefined, a blank string and an empty list being empty) converts to, its
\* count being the number of those answers, from completed and partial
\* responses alike; an answer that is no number adds no entry and no count.
C15_DistributionOfNonEmptyNumbers ==
  Done =>
    \A q \in RatingQuestions :
      LET d == EntryIn(report.data, q).distribution IN
        /\ {d[i].value : i \in 1..Len(d)} = NumbersObserved(q)
        /\ Len(d) = Cardinality(NumbersObserved(q))
        /\ \A i \in 1..Len(d) : d[i].count = Cardinality(NumericSlots(q, d[i].value))

\* C16: the distribution of a rating or star_rating question is sorted by
\* numeric value ascending (no value twice).
C16_DistributionAscending ==
  Done =>
    \A q \in RatingQuestions :
      LET d == EntryIn(report.data, q).distribution IN
        \A i, j \in 1..Len(d) : i < j => d[i].value < d[j].value

\* 4 is answered before "2": the distribution lists 2, then 4
C16_Witness ==
  /\ Done
  /\ survey = SurveyTied
  /\ Len(responses) = 2
  /\ responses[1].answers = <<Answer("q2", Four)>>
  /\ responses[2].answers = <<Answer("q2", TextTwo), Answer("q3", Four)>>
  /\ [i \in 1..2 |-> EntryIn(report.data, "q2").distribution[i].value] = <<2, 4>>

-----------------------------------------------------------------------------
(* Claims on the reported options and their labels *)

ObservedValues(q) == {ValueAt(t) : t \in ObservedAt(q)}

DeclaredOptions(q) ==
  LET opts == survey.questions[PositionOf(q)].options IN {opts[i] : i \in 1..Len(opts)}

\* the strings under which a declared option can be selected: its value as
\* the metadata index holds it, and its text
NamesOf(opt) ==
  {StringOf(OptionValue(opt))} \cup (IF IsNullish(opt.text) THEN {} ELSE {opt.text.str})

\* C17: a choice question reports the observed values only: every reported
\* option has count at least 1 and its value was selected by some answer,
\* every selected value is reported, and a declared option that no answer
\* selected is not in the list.
C17_OnlyObservedOptions ==
  Done =>
    \A q \in ChoiceQuestions :
      LET o == EntryIn(report.data, q).options
          reported == {o[i].value : i \in 1..Len(o)}
      IN /\ \A i \in 1..Len(o) : o[i].count >= 1
         /\ reported = ObservedValues(q)
         /\ \A opt \in DeclaredOptions(q) :
              NamesOf(opt) \cap ObservedValues(q) = {} => NamesOf(opt) \cap reported = {}

\* three options are declared and only the value A is selected
C17_Witness ==
  /\ Done
  /\ survey = SurveyTied
  /\ Len(responses) = 1
  /\ responses[1].answers = <<Answer("q1", TextA)>>
  /\ Cardinality(DeclaredOptions("q1")) = 3
  /\ Len(EntryIn(report.data, "q1").options) = 1
  /\ EntryIn(report.data, "q1").options[1].value = <<"A">>

\* the declared options of q whose value, the text standing in for a missing
\* value, is v
MatchingOptions(q, v) == {opt \in DeclaredOptions(q) : StringOf(OptionValue(opt)) = v}

\* the text of a declared option as a string, empty when it has none
TextOf(opt) == IF IsNullish(opt.text) THEN <<>> ELSE opt.text.str

\* C18 (as claimed): the label of an observed value v is the label of the
\* declared option whose value (its label when it has no value) equals v,
\* and v itself when no declared option matches.
C18_LabelOfMatchingOption ==
  Done =>
    \A q \in ChoiceQuestions :
      LET o == EntryIn(report.data, q).options IN
        \A i \in 1..Len(o) :
          IF MatchingOptions(q, o[i].value) # {}
            THEN \E opt \in MatchingOptions(q, o[i].value) : o[i].label = TextOf(opt)
            ELSE o[i].label = o[i].value

\* C18 (amended): the label of an observed value v is the label of the
\* declared option whose value (its label when it has no value) equals v,
\* provided that label is not empty; when no declared option matches, or the
\* matching option has no label or an empty one, the label is v itself.
C18_LabelOrValue ==
  Done =>
    \A q \in ChoiceQuestions :
      LET o == EntryIn(report.data, q).options IN
        \A i \in 1..Len(o) :
          LET labelled == {opt \in MatchingOptions(q, o[i].value) : TextOf(opt) # <<>>} IN
            IF labelled # {}
              THEN \E opt \in labelled : o[i].label = TextOf(opt)
              ELSE o[i].label = o[i].value

\* A matches the option labelled Alpha and C the option without label, and
\* Z matches none
C18_Witness ==
  /\ Done
  /\ survey = SurveyTied
  /\ Len(responses) = 2
  /\ responses[1].answers = <<Answer("q1", ListCA)>>
  /\ responses[2].answers = <<Answer("q1", TextZ), Answer("q2", TextTwo)>>
  /\ [i \in 1..3 |-> EntryIn(report.data, "q1").options[i].label]
       = <<<<"C">>, Alpha.str, <<"Z">>>>
  /\ report.data.totals.totalResponses = 2

-----------------------------------------------------------------------------
(* Claims on questions of an unknown type and on text questions *)

KnownTypes == ChoiceTypes \cup RatingTypes \cup TextTypes

UnknownQuestions == {q \in QuestionIds : TypeOfQuestion(q) \notin KnownTypes}

\* the question list with question q given the type `type`
Retyped(questions, q, type) ==
  [i \in 1..Len(questions) |->
     IF questions[i].id = q THEN [questions[i] EXCEPT !.type = type] ELSE questions[i]]

\* C19 (as claimed): for a question whose type is none of the six known
\* ones, totalAnswers is the number of non-empty answers given to it and
\* reached the number of responses holding one (null, undefined, a blank
\* string and an empty list being empty); its report entry has kind
\* 'unknown' and the base fields only, neither options nor distribution nor
\* textCount.
C19_UnknownTypeCountsNonEmpty ==
  Done =>
    \A q \in UnknownQuestions :
      LET entry == EntryIn(report.data, q) IN
        /\ entry.kind = "unknown"
        /\ entry.fields = {}
        /\ entry.totalAnswers = Cardinality(AllNonEmptySlots(q))
        /\ ReachedIn(report.data, q) =
             Cardinality({i \in 1..Len(responses) : NonEmptySlots(responses[i], q) # {}})

\* what does hold for a question of an unknown type: the entry has kind
\* 'unknown' without payload, and reached and totalAnswers are those of the
\* same question with a known type, no non-empty answer being left out
UnknownTypeTrackedAsKnown ==
  Done =>
    \A q \in UnknownQuestions :
      LET entry == EntryIn(report.data, q)
          known == Analytics(Retyped(survey.questions, q, "short_text"), responses)
      IN /\ entry.kind = "unknown"
         /\ entry.fields = {}
         /\ entry.options = <<>> /\ entry.distribution = <<>> /\ entry.textCount = 0
         /\ entry.totalAnswers = EntryIn(known, q).totalAnswers
         /\ ReachedIn(report.data, q) = ReachedIn(known, q)
         /\ entry.totalAnswers >= Cardinality(AllNonEmptySlots(q))

TextQuestions == {q \in QuestionIds : TypeOfQuestion(q) \in TextTypes}

\* C20 (as claimed): for a short_text or long_text question, textCount is
\* the number of non-empty answers given to the question over all responses
\* (null, undefined, a blank string and an empty list being empty), and it
\* equals the question's totalAnswers.
C20_TextCountOfNonEmpty ==
  Done =>
    \A q \in TextQuestions :
      LET entry == EntryIn(report.data, q) IN
        /\ entry.textCount = Cardinality(AllNonEmptySlots(q))
        /\ entry.textCount = entry.totalAnswers

\* what does hold for a text question: textCount and totalAnswers are equal
\* and count the answers that are neither null, undefined nor a blank string
TextCountEqualsTotalAnswers ==
  Done =>
    \A q \in TextQuestions :
      LET entry == EntryIn(report.data, q) IN
        /\ entry.textCount = entry.totalAnswers
        /\ entry.textCount = Cardinality(AllCountedSlots(q))

-----------------------------------------------------------------------------
(* Claims on malformed surveys and answers *)

\* the last question of the survey's list that carries the id q
LastWithId(q) ==
  survey.questions[CHOOSE i \in 1..Len(survey.questions) :
                     /\ survey.questions[i].id = q
                     /\ \A j \in (i + 1)..Len(survey.questions) : survey.questions[j].id # q]

FunnelEntries(q) == {i \in 1..Len(report.data.funnel) : report.data.funnel[i].questionId = q}

QuestionEntries(q) ==
  {i \in 1..Len(report.data.questions) : report.data.questions[i].questionId = q}

\* the labels a question declares, by option value
DeclaredLabel(question, v) ==
  LET opts == {question.options[i] : i \in 1..Len(question.options)}
      labelled == {opt \in opts : StringOf(OptionValue(opt)) = v /\ TextOf(opt) # <<>>}
  IN IF labelled = {} THEN v ELSE TextOf(CHOOSE opt \in labelled : TRUE)

\* C21: when the question list holds an id twice the later question wins:
\* funnel and questions hold a single entry for the id, with the type, the
\* order and the text of the last question of that id and with the labels
\* its options declare; the request ends without error.
C21_LastQuestionWins ==
  /\ report.outcome \in {"none", "success"}
  /\ Done =>
       \A q \in QuestionIds :
         /\ Cardinality(FunnelEntries(q)) = 1
         /\ Cardinality(QuestionEntries(q)) = 1
         /\ LET last == LastWithId(q)
                f == report.data.funnel[CHOOSE i \in FunnelEntries(q) : TRUE]
                e == EntryIn(report.data, q)
            IN /\ f.order = last.order /\ f.questionText = last.text
               /\ e.type = last.type /\ e.order = last.order /\ e.questionText = last.text
               /\ e.fields = PayloadFields(last.type)
               /\ \A i \in 1..Len(e.options) :
                    e.options[i].label = DeclaredLabel(last, e.options[i].value)

\* q1 is listed twice and answered with A: one entry, a choice question
\* with the second question's text and order, A labelled Alpha
C21_Witness ==
  /\ Done
  /\ Cardinality({i \in 1..Len(survey.questions) : survey.questions[i].id = "q1"}) = 2
  /\ Len(responses) = 1
  /\ responses[1].answers = <<Answer("q1", TextA)>>
  /\ Len(report.data.questions) = 2
  /\ EntryIn(report.data, "q1").kind = "choice"
  /\ EntryIn(report.data, "q1").questionText = "second"
  /\ EntryIn(report.data, "q1").order = 2
  /\ EntryIn(report.data, "q1").options[1].label = Alpha.str

\* the defects C22 names: an answer for an id that is no question of the
\* survey, an answer for a question of an unknown type, a value whose shape
\* the question type does not expect; a null element is none of them
DefectsLimited ==
  \A i \in 1..Len(responses) : \A j \in 1..Len(responses[i].answers) :
    responses[i].answers[j] # NullElement

-----------------------------------------------------------------------------
(* Claims on the survey's life cycle, checked under SpecOwner *)

ContentRequests == {"updateSurvey", "addQuestion"}

\* C23 (as claimed): once the survey's status is not draft, every owner
\* request that would change its content (updateSurvey, addQuestion) is
\* rejected: no such request that read a published or closed survey is
\* carried on to its save, and none changes the question list.
C23_NonDraftContentLocked ==
  [][/\ \A r \in requests' \ requests :
          r.op \in ContentRequests => r.status = "draft"
     /\ \A r \in requests \ requests' :
          (r.op \in ContentRequests /\ r.status # "draft") =>
            survey'.questions = survey.questions]_vars

-----------------------------------------------------------------------------
(* C24 - C25: the stored responses and the survey's responseCount *)

CompletedResponses == {i \in 1..Len(responses) : responses[i].isCompleted}

\* C24: once every submitResponse, submitSurveyResponse, savePartialResponse
\* and deleteResponse request has answered, in whatever order their steps
\* ran, responseCount is the number of stored completed responses.
C24_CountIsCompletedResponses ==
  requests = {} => survey.responseCount = Cardinality(CompletedResponses)

ResponsesOf(user) == {i \in 1..Len(responses) : responses[i].respondent = user}

ResponsesFrom(email) == {i \in 1..Len(responses) : responses[i].respondentEmail = email}

\* C25: while allowMultipleResponses is false no authenticated respondent and
\* no respondent email has more than one stored response of the survey.
C25_OneResponsePerRespondent ==
  ~survey.allowMultipleResponses =>
    /\ \A user \in Users : Cardinality(ResponsesOf(user)) <= 1
    /\ \A email \in Emails : Cardinality(ResponsesFrom(email)) <= 1

\* C26: in every reachable state a published survey has at least one
\* question.
C26_PublishedHasQuestion ==
  survey.status = "published" => Len(survey.questions) >= 1

\* the part of C26 that holds: publishSurvey on a survey without questions
\* is rejected and changes nothing of the survey
PublishOfEmptyRejected ==
  [][(Len(survey.questions) = 0 /\ report' = Sent("rejected", "publishSurvey") /\ report' # report)
       => (survey' = survey /\ requests' = requests)]_vars

StatusRank(status) ==
  CASE status = "draft" -> 0
    [] status = "published" -> 1
    [] status = "closed" -> 2

\* C27: the survey's status only moves forward along draft, published,
\* closed; in particular a closed survey never becomes published again.
C27_StatusOnlyForward ==
  [][StatusRank(survey'.status) >= StatusRank(survey.status)]_vars

-----------------------------------------------------------------------------
(* Claims on the numbers of the report *)

\* 0 <= num / den <= 100
WithinHundred(p) == p.den > 0 /\ 0 <= p.num /\ p.num <= 100 * p.den

\* C28: every option of a choice question and every distribution entry of a
\* rating question counts at most the question's totalAnswers, so each
\* percentage lies between 0 and 100 and is never divided by zero.
C28_CountAtMostTotalAnswers ==
  Done =>
    \A k \in 1..Len(report.data.questions) :
      LET e == report.data.questions[k] IN
        /\ \A i \in 1..Len(e.options) :
             /\ e.options[i].count <= e.totalAnswers
             /\ WithinHundred(e.options[i].percentage)
        /\ \A i \in 1..Len(e.distribution) :
             /\ e.distribution[i].count <= e.totalAnswers
             /\ WithinHundred(e.distribution[i].percentage)

\* the part of C28 that holds: a rating entry counts at most totalAnswers,
\* and no percentage is divided by zero
RatingCountAtMostTotalAnswers ==
  Done =>
    \A k \in 1..Len(report.data.questions) :
      LET e == report.data.questions[k] IN
        /\ \A i \in 1..Len(e.options) : e.options[i].percentage.den > 0
        /\ \A i \in 1..Len(e.distribution) :
             /\ e.distribution[i].count <= e.totalAnswers
             /\ WithinHundred(e.distribution[i].percentage)

\* the orders the collection may be read in
Permutations(n) ==
  {p \in [1..n -> 1..n] : \A i, j \in 1..n : i # j => p[i] # p[j]}

Permuted(rs, p) == [i \in 1..Len(rs) |-> rs[p[i]]]

\* the entry of a question without its options
WithoutOptions(e) == [e EXCEPT !.options = <<>>]

OptionSet(e) == {e.options[i] : i \in 1..Len(e.options)}

\* C29: the counts do not depend on the order of the responses: for every
\* permutation of the collection the totals, the funnel, and per question
\* totalAnswers, textCount, the distribution and the reported options with
\* their counts are the same; only options of equal count may change places.
C29_OrderOfResponsesIrrelevant ==
  Done =>
    \A p \in Permutations(Len(responses)) :
      LET other == Analytics(survey.questions, Permuted(responses, p)) IN
        /\ other.totals = report.data.totals
        /\ other.funnel = report.data.funnel
        /\ Len(other.questions) = Len(report.data.questions)
        /\ \A k \in 1..Len(report.data.questions) :
             LET e == report.data.questions[k]
                 o == other.questions[k]
             IN /\ WithoutOptions(o) = WithoutOptions(e)
                /\ Len(o.options) = Len(e.options)
                /\ OptionSet(o) = OptionSet(e)
                /\ \A i \in 1..Len(e.options) :
                     o.options[i].count = e.options[i].count

\* a completed and a partial response select different options of q1: read
\* in the other order, the two options of equal count change places
C29_Witness ==
  /\ Done
  /\ Len(responses) = 2
  /\ responses[1].isCompleted /\ ~responses[2].isCompleted
  /\ report.data.totals.completedResponses = 1
  /\ LET other == Analytics(survey.questions, Permuted(responses, <<2, 1>>)) IN
       /\ other.questions # report.data.questions
       /\ Len(EntryIn(report.data, "q1").options) = 2
       /\ EntryIn(other, "q1").options[1] = EntryIn(report.data, "q1").options[2]

\* the non-empty answers for q that convert to no number
NonNumericSlots(q) ==
  {p \in AllNonEmptySlots(q) : NumberOf(responses[p[1]].answers[p[2]].answer).kind = "nan"}

DistributionSum(e) == SumSeq([i \in 1..Len(e.distribution) |-> e.distribution[i].count])

\* C30: for every rating or star_rating question the distribution counts
\* add up to at most totalAnswers, and to exactly totalAnswers when and only
\* when every non-empty answer for the question is numeric: each non-empty
\* answer that is no number is one of totalAnswers, in no distribution
\* entry, and its response is one of reached.
C30_DistributionSumAtMostTotal ==
  Done =>
    \A q \in RatingQuestions :
      LET e == EntryIn(report.data, q) IN
        /\ DistributionSum(e) <= e.totalAnswers
        /\ (DistributionSum(e) = e.totalAnswers) <=> (NonNumericSlots(q) = {})
        /\ e.totalAnswers - DistributionSum(e) = Cardinality(NonNumericSlots(q))
        /\ ReachedIn(report.data, q) >= Cardinality({p[1] : p \in NonNumericSlots(q)})

\* the rating question holds the answers [] and 4 of one response and a list
\* that is no number of another: two of three answers are in the distribution
C30_Witness ==
  /\ Done
  /\ Len(responses) = 2
  /\ responses[1].answers = <<Answer("q2", EmptyList), Answer("q2", Four)>>
  /\ responses[2].answers = <<Answer("q2", ListCA), Answer("q1", Four)>>
  /\ EntryIn(report.data, "q2").totalAnswers = 3
  /\ DistributionSum(EntryIn(report.data, "q2")) = 2
  /\ ReachedIn(report.data, "q2") = 2

====
